---- MODULE Spec2Model ----
(***************************************************************************)
(* Model of src/script.js: the contact-form validation engine              *)
(* (validationRules, validateField, getFieldLabel), the per-field UI       *)
(* update (updateFieldUI), the input/blur/focus listeners with their       *)
(* debounce timers, the submit listener with its success and failure       *)
(* paths, and resetForm; then the theme toggle with its storage helpers,   *)
(* the counter, the FAQ accordion, the tabs, and the dropdown with its     *)
(* actions and notifications.                                              *)
(*                                                                         *)
(* Field values are TLA+ strings; a character is a string of length one.   *)
(* The regular expressions of validationRules are written out as the       *)
(* languages they accept, by quantifying over the places where the         *)
(* anchored match can split the string.                                    *)
(***************************************************************************)
EXTENDS Integers, Sequences, FiniteSets, TLC

VARIABLES
    fieldValue,          \* field.value of every form field
    defaultValue,        \* the value the markup gives each field (form.reset() target)
    classList,           \* field.classList restricted to {"error", "success"}
    errorDisplay,        \* style.display of the element <field>Error
    errorText,           \* textContent of the element <field>Error
    successDisplay,      \* style.display of the element <field>Success
    formSuccessDisplay,  \* style.display of the element formSuccess
    focused,             \* the field that has the focus, or NoField
    timeout,             \* per field: is the debounce timer pending
    resetTimers,         \* number of pending reset-offer timers (setTimeout 2000)
    lastResult,          \* per field: result of its most recent validateField call
    lastEvent,           \* the event handled in the last step: its type and its field
    submitRec,           \* what the most recent submit event did
    events,              \* number of events handled so far
    callName,            \* argument fieldName of a direct validateField call
    callValue,           \* argument value of a direct validateField call
    callResult,          \* what that call returned
    pc,                  \* "ready" before the direct call, "done" after it
    timerTable,          \* the browser's pending timers: id, kind, field, time left
    timeoutId,           \* per field: the variable timeout of its debounce closure
    nextTimerId,         \* the id the next setTimeout returns
    sinceInput,          \* per field: time since its last input event, up to Wait
    bodyClass,           \* document.body.classList restricted to the two theme classes
    themeToggleText,     \* textContent of the element themeToggle
    storageCondition,    \* how the browser's storage behaves in this page session
    localStorageTheme,   \* the item 'theme' of localStorage (survives a reload)
    currentTheme,        \* window.currentTheme (lost on a reload)
    count,               \* the variable count of initializeCounter
    displayText,         \* textContent of the element counterDisplay
    displayColor,        \* style.color of the element counterDisplay
    answerActive,        \* per FAQ item: has its .faq-answer the class active
    iconActive,          \* per FAQ item: has its .faq-icon the class active
    faqTransform,        \* per FAQ question: its style.transform
    mouseOver,           \* the FAQ question under the pointer, or NoQuestion
    btnActive,           \* per tab button: has it the class active
    panelActive,         \* per tab panel: has it the class active
    panelStyle,          \* per tab panel: style.opacity, .transform, .transition
    transform,           \* style.transform of the toggle, the display and the buttons
    styleTimers,         \* per element: number of pending timers that restore its style
    menuStyle,           \* dropdownMenu.style: display, opacity, transform, transition
    arrowTransform,      \* style.transform of the arrow span of dropdownToggle
    itemStyle,           \* per dropdown item: style.transform and style.transition
    bodyStyle,           \* document.body.style: background, transition, transform
    banners              \* the notification elements in the document

vars == <<fieldValue, defaultValue, classList, errorDisplay, errorText,
          successDisplay, formSuccessDisplay, focused, timeout, resetTimers,
          lastResult, lastEvent, submitRec, events,
          callName, callValue, callResult, pc,
          timerTable, timeoutId, nextTimerId, sinceInput,
          bodyClass, themeToggleText, storageCondition, localStorageTheme,
          currentTheme, count, displayText, displayColor,
          answerActive, iconActive, faqTransform, mouseOver,
          btnActive, panelActive, panelStyle, transform, styleTimers,
          menuStyle, arrowTransform, itemStyle, bodyStyle, banners>>

formVars == <<defaultValue, classList, errorDisplay, errorText,
              successDisplay, formSuccessDisplay, focused, timeout, resetTimers,
              lastResult, lastEvent, submitRec, events>>

callVars == <<callName, callValue, callResult, pc>>

timeVars == <<timerTable, timeoutId, nextTimerId, sinceInput>>

themeVars == <<bodyClass, themeToggleText, storageCondition, localStorageTheme,
               currentTheme>>

counterVars == <<count, displayText, displayColor>>

faqVars == <<answerActive, iconActive, faqTransform, mouseOver>>

tabVars == <<btnActive, panelActive, panelStyle>>

styleVars == <<transform, styleTimers>>

dropVars == <<menuStyle, arrowTransform, itemStyle, bodyStyle, banners>>

widgetVars == <<themeVars, counterVars, faqVars, tabVars, styleVars, dropVars>>

(***************************************************************************)
(* Characters and character classes                                       *)
(***************************************************************************)
Lower == {"a","b","c","d","e","f","g","h","i","j","k","l","m",
          "n","o","p","q","r","s","t","u","v","w","x","y","z"}
Upper == {"A","B","C","D","E","F","G","H","I","J","K","L","M",
          "N","O","P","Q","R","S","T","U","V","W","X","Y","Z"}
Letter == Lower \cup Upper
DigitSeq == <<"0","1","2","3","4","5","6","7","8","9">>
Digit == {DigitSeq[i] : i \in 1..10}
\* \n and \r: what "." does not match
LineTerminator == {"\n", "\r"}
\* what \s matches and String.prototype.trim strips (the ASCII part)
WhiteSpace == {" ", "\t", "\f"} \cup LineTerminator
\* \w, which decides where \b holds
WordChar == Letter \cup Digit \cup {"_"}

charAt(s, i) == SubSeq(s, i, i)

\* every character of s at the places i..j is in class C
AllIn(s, i, j, C) == \A k \in i..j : charAt(s, k) \in C

\* s has the literal lit at place i
HasAt(s, i, lit) == /\ i + Len(lit) - 1 <= Len(s)
                    /\ SubSeq(s, i, i + Len(lit) - 1) = lit

\* the first place at or after i that holds no white space
RECURSIVE SkipWhiteSpace(_, _)
SkipWhiteSpace(s, i) ==
    IF i <= Len(s) /\ charAt(s, i) \in WhiteSpace THEN SkipWhiteSpace(s, i + 1) ELSE i

\* the last place at or before i that holds no white space
RECURSIVE SkipWhiteSpaceBack(_, _)
SkipWhiteSpaceBack(s, i) ==
    IF i >= 1 /\ charAt(s, i) \in WhiteSpace THEN SkipWhiteSpaceBack(s, i - 1) ELSE i

\* String.prototype.trim
trim(s) ==
    LET first == SkipWhiteSpace(s, 1)
    IN  IF first > Len(s) THEN ""
        ELSE SubSeq(s, first, SkipWhiteSpaceBack(s, Len(s)))

(***************************************************************************)
(* The patterns of validationRules                                         *)
(***************************************************************************)
\* /^[a-zA-Z\s'-]+$/
NameClass == Letter \cup WhiteSpace \cup {"'", "-"}
fullNamePattern(s) == Len(s) >= 1 /\ AllIn(s, 1, Len(s), NameClass)

\* /^[a-zA-Z0-9._%+-]+@[a-zA-Z0-9.-]+\.[a-zA-Z]{2,}$/
EmailLocal == Letter \cup Digit \cup {".", "_", "%", "+", "-"}
EmailDomain == Letter \cup Digit \cup {".", "-"}
emailPattern(s) ==
    \E at \in 2..Len(s) :
        /\ charAt(s, at) = "@"
        /\ AllIn(s, 1, at - 1, EmailLocal)
        /\ \E dot \in (at + 2)..Len(s) :
               /\ charAt(s, dot) = "."
               /\ Len(s) - dot >= 2
               /\ AllIn(s, at + 1, dot - 1, EmailDomain)
               /\ AllIn(s, dot + 1, Len(s), Letter)

\* /^[\+]?[(]?[\d\s\-\(\)]{10,}$/
PhoneClass == Digit \cup WhiteSpace \cup {"-", "(", ")"}
phonePattern(s) ==
    \E plus \in 0..1 : \E paren \in 0..1 :
        /\ plus = 1 => HasAt(s, 1, "+")
        /\ paren = 1 => HasAt(s, plus + 1, "(")
        /\ Len(s) - (plus + paren) >= 10
        /\ AllIn(s, plus + paren + 1, Len(s), PhoneClass)

\* /^(?=.*[a-z])(?=.*[A-Z])(?=.*\d)(?=.*[@$!%*?&])[A-Za-z\d@$!%*?&]/
PasswordSpecial == {"@", "$", "!", "%", "*", "?", "&"}
PasswordClass == Letter \cup Digit \cup PasswordSpecial
\* (?=.*[C]) at place 1: some character of C with no line terminator before it
Lookahead(s, C) ==
    \E k \in 1..Len(s) :
        /\ charAt(s, k) \in C
        /\ \A j \in 1..(k - 1) : charAt(s, j) \notin LineTerminator
passwordPattern(s) ==
    /\ Lookahead(s, Lower)
    /\ Lookahead(s, Upper)
    /\ Lookahead(s, Digit)
    /\ Lookahead(s, PasswordSpecial)
    /\ Len(s) >= 1
    /\ charAt(s, 1) \in PasswordClass

\* /^https?:\/\/(www\.)?[-a-zA-Z0-9@:%._\+~#=]{1,256}\.[a-zA-Z0-9()]{1,6}\b([-a-zA-Z0-9()@:%_\+.~#?&//=]*)$/
UrlHost == Letter \cup Digit \cup {"-", "@", ":", "%", ".", "_", "+", "~", "#", "="}
UrlTld == Letter \cup Digit \cup {"(", ")"}
UrlPath == Letter \cup Digit \cup
           {"-", "(", ")", "@", ":", "%", "_", "+", ".", "~", "#", "?", "&", "/", "="}
\* \b between the places q - 1 and q
WordBoundary(s, q) ==
    LET before == q - 1 >= 1 /\ charAt(s, q - 1) \in WordChar
        after  == q <= Len(s) /\ charAt(s, q) \in WordChar
    IN  before # after
websitePattern(s) ==
    \E sch \in {"http://", "https://"} : \E www \in {"", "www."} :
        LET host == Len(sch) + Len(www) + 1
        IN  /\ HasAt(s, 1, sch)
            /\ HasAt(s, Len(sch) + 1, www)
            /\ \E dot \in (host + 1)..Len(s) :
                   /\ charAt(s, dot) = "."
                   /\ dot - host <= 256
                   /\ AllIn(s, host, dot - 1, UrlHost)
                   /\ \E q \in (dot + 2)..(Len(s) + 1) :
                          /\ q - (dot + 1) <= 6
                          /\ AllIn(s, dot + 1, q - 1, UrlTld)
                          /\ WordBoundary(s, q)
                          /\ AllIn(s, q, Len(s), UrlPath)

\* rules.pattern.test(value)
test(pattern, s) ==
    CASE pattern = "fullName" -> fullNamePattern(s)
      [] pattern = "email"    -> emailPattern(s)
      [] pattern = "phone"    -> phonePattern(s)
      [] pattern = "password" -> passwordPattern(s)
      [] pattern = "website"  -> websitePattern(s)

(***************************************************************************)
(* The rule table, the label table and validateField                      *)
(***************************************************************************)
\* Object.keys(fields), in declaration order
fieldOrder == <<"fullName", "email", "phone", "password",
                "confirmPassword", "age", "website", "message">>
Fields == {fieldOrder[i] : i \in 1..Len(fieldOrder)}

validationRules ==
    [fullName |->
        [required |-> TRUE, minLength |-> 2, maxLength |-> 50, pattern |-> "fullName",
         message |-> "Name must be 2-50 characters and contain only letters, spaces, hyphens, and apostrophes"],
     email |->
        [required |-> TRUE, pattern |-> "email",
         message |-> "Please enter a valid email address (example: user@domain.com)"],
     phone |->
        [required |-> FALSE, pattern |-> "phone",
         message |-> "Please enter a valid phone number (at least 10 digits)"],
     password |->
        [required |-> TRUE, minLength |-> 8, pattern |-> "password",
         message |-> "Password must be at least 8 characters with uppercase, lowercase, number, and special character (@$!%*?&)"],
     confirmPassword |->
        [required |-> TRUE,
         message |-> "Passwords do not match"],
     age |->
        [required |-> FALSE, min |-> 13, max |-> 120,
         message |-> "Age must be between 13 and 120 years"],
     website |->
        [required |-> FALSE, pattern |-> "website",
         message |-> "Please enter a valid URL (include http:// or https://)"],
     message |->
        [required |-> TRUE, minLength |-> 10, maxLength |-> 500,
         message |-> "Message must be between 10 and 500 characters"]]

\* rules.<key> is not undefined
Has(rules, key) == key \in DOMAIN rules

labels ==
    [fullName |-> "Full Name", email |-> "Email Address", phone |-> "Phone Number",
     password |-> "Password", confirmPassword |-> "Confirm Password", age |-> "Age",
     website |-> "Website", message |-> "Message"]

\* the lookup in labels never succeeds
getFieldLabel_raw(fieldName) == fieldName

getFieldLabel(fieldName) ==
    IF fieldName \in DOMAIN labels THEN labels[fieldName] ELSE fieldName

\* parseInt(value, 10): leading white space, an optional sign, then the longest
\* run of decimal digits; NaN when that run is empty. What follows the run is ignored.
NaN == [isNaN |-> TRUE, value |-> 0]
Number(n) == [isNaN |-> FALSE, value |-> n]
isNaN(x) == x.isNaN
DigitValue(c) == (CHOOSE i \in 1..10 : DigitSeq[i] = c) - 1
RECURSIVE DigitRun(_, _)
DigitRun(s, i) ==
    IF i <= Len(s) /\ charAt(s, i) \in Digit THEN DigitRun(s, i + 1) ELSE i
RECURSIVE Decimal(_, _, _)
Decimal(s, i, j) ==
    IF i > j THEN 0 ELSE 10 * Decimal(s, i, j - 1) + DigitValue(charAt(s, j))
parseInt(s) ==
    LET start  == SkipWhiteSpace(s, 1)
        signed == start <= Len(s) /\ charAt(s, start) \in {"+", "-"}
        first  == IF signed THEN start + 1 ELSE start
        stop   == DigitRun(s, first)
    IN  IF stop = first THEN NaN
        ELSE IF signed /\ charAt(s, start) = "-"
             THEN Number(0 - Decimal(s, first, stop - 1))
             ELSE Number(Decimal(s, first, stop - 1))

Valid == [isValid |-> TRUE]
Invalid(message) == [isValid |-> FALSE, message |-> message]

\* the password value as it was when the listeners were set up
passwordValue_stored == defaultValue["password"]

\* fields.password ? fields.password.value : ''
passwordValue == fieldValue["password"]

\* the test for an empty value without the trim
isEmpty_noTrim(value) == value = ""

\* !value || value.trim() === ''
isEmpty(value) == value = "" \/ trim(value) = ""

\* rules.minLength && value.length < rules.minLength
minLengthFails(rules, value) ==
    Has(rules, "minLength") /\ Len(value) < rules.minLength

\* maxLength taken as an exclusive bound
maxLengthFails_exclusive(rules, value) ==
    Has(rules, "maxLength") /\ Len(value) >= rules.maxLength

\* rules.maxLength && value.length > rules.maxLength
maxLengthFails(rules, value) ==
    Has(rules, "maxLength") /\ Len(value) > rules.maxLength

\* rules.pattern && !rules.pattern.test(value)
patternFails(rules, value) ==
    Has(rules, "pattern") /\ ~test(rules.pattern, value)

\* min and max taken as exclusive bounds
rangeFails_exclusive(rules, value) ==
    /\ Has(rules, "min") \/ Has(rules, "max")
    /\ LET numValue == parseInt(value)
       IN  \/ isNaN(numValue)
           \/ Has(rules, "min") /\ numValue.value <= rules.min
           \/ Has(rules, "max") /\ numValue.value >= rules.max

\* the numeric range block
rangeFails(rules, value) ==
    /\ Has(rules, "min") \/ Has(rules, "max")
    /\ LET numValue == parseInt(value)
       IN  \/ isNaN(numValue)
           \/ Has(rules, "min") /\ numValue.value < rules.min
           \/ Has(rules, "max") /\ numValue.value > rules.max

\* the confirm password block
confirmFails(fieldName, value) ==
    fieldName = "confirmPassword" /\ value # passwordValue

validateField(fieldName, value) ==
    IF fieldName \notin DOMAIN validationRules THEN Valid
    ELSE
    LET rules == validationRules[fieldName]
        v     == trim(value)
    IN  IF rules.required /\ isEmpty(value)
            THEN Invalid(getFieldLabel(fieldName) \o " is required")
        ELSE IF isEmpty(value)           THEN Valid
        ELSE IF minLengthFails(rules, v) THEN Invalid(rules.message)
        ELSE IF maxLengthFails(rules, v) THEN Invalid(rules.message)
        ELSE IF patternFails(rules, v)   THEN Invalid(rules.message)
        ELSE IF rangeFails(rules, v)     THEN Invalid(rules.message)
        ELSE IF confirmFails(fieldName, v) THEN Invalid(rules.message)
        ELSE Valid

(***************************************************************************)
(* Direct calls of validateField: the arguments are drawn in the initial   *)
(* state, the call is one step.                                            *)
(***************************************************************************)
MaxLen == 3

\* the delay of the debounced validation and of the reset offer
Wait == 300
ResetDelay == 2000

NoField == "none"
NoResult == [none |-> TRUE]
NoSubmit == [prevented |-> FALSE, path |-> "none"]
NoEvent == [type |-> "load", field |-> NoField]

RECURSIVE Rep(_, _)
Rep(c, n) ==
    IF n = 0 THEN ""
    ELSE LET half == Rep(c, n \div 2)
         IN  IF n % 2 = 0 THEN half \o half ELSE half \o half \o c

\* every string over the characters of chars that has at most n characters
RECURSIVE StringsUpTo(_, _)
StringsUpTo(chars, n) ==
    IF n = 0 THEN {""}
    ELSE LET shorter == StringsUpTo(chars, n - 1)
         IN  shorter \cup {s \o c : s \in shorter, c \in chars}

TypedChars == {" ", "0", "1", "2", "3", "a"}

SampleValues ==
    {"A", "Anne-Marie O'Brien", "Anne_Marie", " Al ", Rep("a", 50), Rep("a", 51),
     "user@domain.com", "bad-email", "user@domain", "user@domain.c", "a.b@c-d.example.org",
     "+1 (555) 123-4567", "1234567890", "123456789", "(555) 123 4567x",
     "Abcdef1!", "abcdefgh", "Abcde1!", " Abcdef1!", "Abcdef1! ", "#Abcdef1!", "Abcdef1! #",
     "different",
     "12", "13", "120", "121", " 13 ", "13abc", "13.9", "abc", "-13", "+13", "1 3",
     "https://www.example.com/path?x=1", "http://a.bc", "http://a", "ftp://a.bc",
     "https://example.com/a b", "http://www.x", "http://a.b-",
     Rep("m", 9), Rep("m", 10), Rep("m", 500), Rep("m", 501), "nine char\n", "\t", "\n \t"}

CallValues == StringsUpTo(TypedChars, MaxLen) \cup SampleValues

PasswordValues == {"", "Abcdef1!", " Abcdef1!", "Abcdef1! ", "a1", "1 2"}

\* "nickname" stands for a field name that has no rule
CallNames == Fields \cup {"nickname"}

(***************************************************************************)
(* The other widgets of the page: theme toggle, counter, FAQ accordion and *)
(* tabs.  The markup is not part of the script; the elements the script    *)
(* asks for by id are taken to exist.  A style the script restores with a  *)
(* fire-and-forget timer is kept with the number of timers still pending.  *)
(***************************************************************************)
Null == "null"
Undefined == "undefined"
Themes == {"light", "dark"}

\* available: the operations of localStorage succeed;
\* absent:    typeof Storage is 'undefined';
\* denied:    every access to localStorage throws;
\* full:      setItem throws (the quota is exceeded), getItem succeeds
StorageConditions == {"available", "absent", "denied", "full"}

\* the two places a preference can be kept
store == [localStorageTheme |-> localStorageTheme, currentTheme |-> currentTheme]

\* the labels start with an emoji, written here by its code points
updateThemeToggleText(theme) ==
    IF theme = "light" THEN "U+1F319 Dark Mode" ELSE "U+2600 U+FE0F Light Mode"

\* saveTheme: what the two places hold after the call
saveTheme(cond, st, theme) ==
    IF cond = "available" THEN [st EXCEPT !.localStorageTheme = theme]
    ELSE IF cond = "absent" THEN [st EXCEPT !.currentTheme = theme]
    ELSE [st EXCEPT !.currentTheme = theme]

\* getStoredTheme: what the call returns
getStoredTheme(cond, st) ==
    IF cond \in {"available", "full"} THEN st.localStorageTheme
    ELSE IF cond = "absent" THEN st.currentTheme
    ELSE st.currentTheme

\* getStoredTheme() || 'light'
savedTheme(cond, st) ==
    IF getStoredTheme(cond, st) \in {Null, Undefined} THEN "light"
    ELSE getStoredTheme(cond, st)

\* the theme class the body carries, as the click listener reads it
isLight == "light-theme" \in bodyClass

\* the page as initializeThemeToggle leaves it
ThemeLoaded(cond, stored) ==
    /\ storageCondition = cond
    /\ localStorageTheme = stored
    /\ currentTheme = Undefined
    /\ bodyClass = {savedTheme(cond, [localStorageTheme |-> stored,
                                      currentTheme |-> Undefined]) \o "-theme"}
    /\ themeToggleText =
           updateThemeToggleText(savedTheme(cond, [localStorageTheme |-> stored,
                                                   currentTheme |-> Undefined]))

\* the conversion of the number count to the text of the display
RECURSIVE DigitsOf(_)
DigitsOf(n) ==
    IF n < 10 THEN DigitSeq[n + 1]
    ELSE DigitsOf(n \div 10) \o DigitSeq[(n % 10) + 1]

NumberToString(n) == IF n < 0 THEN "-" \o DigitsOf(-n) ELSE DigitsOf(n)

Green == "#38a169"
Red == "#e53e3e"
Blue == "#667eea"

\* the colour rule of updateDisplay with zero counted as positive
displayColorOf_zeroPositive(c) ==
    IF c >= 0 THEN Green ELSE Red

\* the colour rule of updateDisplay
displayColorOf(c) ==
    IF c > 0 THEN Green ELSE IF c < 0 THEN Red ELSE Blue

CounterButtons == {"incrementBtn", "increment5Btn", "decrementBtn", "resetBtn", "randomBtn"}

\* the page as initializeCounter leaves it: count 0 and one updateDisplay()
CounterLoaded ==
    /\ count = 0
    /\ displayText = NumberToString(0)
    /\ displayColor = displayColorOf(0)

\* FAQ items 1..NumFaq have a question, an answer and an icon; question 0 has
\* a data-faq that no answer carries
NumFaq == 3
FaqItems == 1..NumFaq
FaqQuestions == 0..NumFaq
NoQuestion == -1

FaqLoaded(active, icons) ==
    /\ answerActive = [i \in FaqItems |-> i \in active]
    /\ iconActive = [i \in FaqItems |-> i \in icons]
    /\ faqTransform = [q \in FaqQuestions |-> ""]
    /\ mouseOver = NoQuestion

\* three tab buttons; the data-tab of the third is the id of no element
TabButtons == {"tabBtn1", "tabBtn2", "tabBtn3"}
TabPanels == {"tab1", "tab2"}
dataTab == [b \in TabButtons |-> IF b = "tabBtn1" THEN "tab1"
                                 ELSE IF b = "tabBtn2" THEN "tab2" ELSE "tab3"]
NoStyle == [opacity |-> "", transform |-> "", transition |-> ""]

TabsLoaded(buttons, panels) ==
    /\ btnActive = [b \in TabButtons |-> b \in buttons]
    /\ panelActive = [p \in TabPanels |-> p \in panels]
    /\ panelStyle = [p \in TabPanels |-> NoStyle]

\* the elements whose style.transform the script sets and restores by timer
Transformed == {"themeToggle", "counterDisplay"} \cup CounterButtons \cup TabButtons
Timed == Transformed \cup TabPanels

\* after load only the counter's display has been animated
StylesLoaded ==
    /\ transform = [e \in Transformed |-> IF e = "counterDisplay" THEN "scale(1.1)" ELSE ""]
    /\ styleTimers = [e \in Timed |-> IF e = "counterDisplay" THEN 1 ELSE 0]

\* one dropdown item for each action of executeDropdownAction, and one whose
\* data-action is none of them
DropdownItems == {"alert", "console", "color", "animate", "other"}
NoItemStyle == [transform |-> "", transition |-> ""]

\* the dropdown, the body and the notifications before any click: no inline
\* style, no notification
DropdownLoaded ==
    /\ menuStyle = [display |-> "", opacity |-> "", transform |-> "", transition |-> ""]
    /\ arrowTransform = ""
    /\ itemStyle = [i \in DropdownItems |-> NoItemStyle]
    /\ bodyStyle = [background |-> "", transition |-> "", transform |-> ""]
    /\ banners = {}

\* the widgets as the page shows them when nothing is stored and the markup
\* marks no item active
WidgetsLoaded ==
    /\ DropdownLoaded
    /\ ThemeLoaded("available", Null)
    /\ CounterLoaded
    /\ FaqLoaded({}, {})
    /\ TabsLoaded({}, {})
    /\ StylesLoaded

Untouched(values) ==
    /\ defaultValue = values
    /\ fieldValue = values
    /\ classList = [f \in Fields |-> {}]
    /\ errorDisplay = [f \in Fields |-> ""]
    /\ errorText = [f \in Fields |-> ""]
    /\ successDisplay = [f \in Fields |-> ""]
    /\ formSuccessDisplay = ""
    /\ focused = NoField
    /\ timeout = [f \in Fields |-> FALSE]
    /\ resetTimers = 0
    /\ lastResult = [f \in Fields |-> NoResult]
    /\ lastEvent = NoEvent
    /\ submitRec = NoSubmit
    /\ events = 0
    /\ timerTable = {}
    /\ timeoutId = [f \in Fields |-> 0]
    /\ nextTimerId = 1
    /\ sinceInput = [f \in Fields |-> Wait]

InitValidate ==
    /\ WidgetsLoaded
    /\ \E p \in PasswordValues :
           Untouched([f \in Fields |-> IF f = "password" THEN p ELSE ""])
    /\ callName \in CallNames
    /\ callValue \in CallValues
    /\ callResult = NoResult
    /\ pc = "ready"

Call ==
    /\ pc = "ready"
    /\ callResult' = validateField(callName, callValue)
    /\ pc' = "done"
    /\ UNCHANGED <<fieldValue, formVars, callName, callValue, timeVars, widgetVars>>

NextValidate == Call

SpecValidate == InitValidate /\ [][NextValidate]_vars

(***************************************************************************)
(* The form: what the listeners do to the fields and their message         *)
(* elements.  The markup is not part of the script; the eight fields are   *)
(* taken to exist, each with its <field>Error and <field>Success element,  *)
(* hidden by the style sheet until the script sets style.display, and      *)
(* formSuccess too.  Time is left out: a pending timer may fire at any     *)
(* later step.                                                             *)
(***************************************************************************)
\* the decoration state the listeners read and write
ui == [classList |-> classList, errorDisplay |-> errorDisplay,
       errorText |-> errorText, successDisplay |-> successDisplay]

updateFieldUI(dom, fieldName, validationResult) ==
    IF validationResult.isValid
    THEN LET filled == trim(fieldValue[fieldName]) # ""
         IN  [dom EXCEPT
                !.classList[fieldName] =
                    (@ \ {"error"}) \cup (IF filled THEN {"success"} ELSE {}),
                !.errorDisplay[fieldName] = "none",
                !.successDisplay[fieldName] = IF filled THEN "block" ELSE @]
    ELSE [dom EXCEPT
                !.classList[fieldName] = (@ \ {"success"}) \cup {"error"},
                !.successDisplay[fieldName] = "none",
                !.errorText[fieldName] = validationResult.message,
                !.errorDisplay[fieldName] = "block"]

\* the body shared by the debounced callback and the blur listener
validateAndUpdate(dom, fieldName) ==
    updateFieldUI(dom, fieldName, validateField(fieldName, fieldValue[fieldName]))

\* the focus listener drops the class and leaves the message element shown
onFocus_keepsMessage(dom, fieldName) ==
    IF "error" \in dom.classList[fieldName]
    THEN [dom EXCEPT !.classList[fieldName] = @ \ {"error"}]
    ELSE dom

\* the focus listener
onFocus(dom, fieldName) ==
    IF "error" \in dom.classList[fieldName]
    THEN [dom EXCEPT !.classList[fieldName] = @ \ {"error"},
                     !.errorDisplay[fieldName] = "none"]
    ELSE dom

\* the decoration variables take the values of dom
SetUI(dom) ==
    /\ classList' = dom.classList
    /\ errorDisplay' = dom.errorDisplay
    /\ errorText' = dom.errorText
    /\ successDisplay' = dom.successDisplay

MaxEvents == 4

\* an input event on the field that has the focus: the value changes and
\* debounce() restarts the field's timer
InputEvent(f, v) ==
    /\ events < MaxEvents
    /\ focused = f
    /\ v # fieldValue[f]
    /\ fieldValue' = [fieldValue EXCEPT ![f] = v]
    /\ timeout' = [timeout EXCEPT ![f] = TRUE]
    /\ lastEvent' = [type |-> "input", field |-> f]
    /\ events' = events + 1
    /\ UNCHANGED <<defaultValue, classList, errorDisplay, errorText, successDisplay,
                   formSuccessDisplay, focused, resetTimers, lastResult, submitRec,
                   callVars>>

\* the debounce timer of a field fires: later() runs the debounced callback
TimerFires(f) ==
    /\ timeout[f]
    /\ timeout' = [timeout EXCEPT ![f] = FALSE]
    /\ SetUI(validateAndUpdate(ui, f))
    /\ lastResult' = [lastResult EXCEPT ![f] = validateField(f, fieldValue[f])]
    /\ lastEvent' = [type |-> "timer", field |-> f]
    /\ UNCHANGED <<fieldValue, defaultValue, formSuccessDisplay, focused, resetTimers,
                   submitRec, events, callVars>>

\* a blur listener that leaves the validation to a pending debounce timer
BlurEvent_suppressed(f) ==
    /\ events < MaxEvents
    /\ focused = f
    /\ focused' = NoField
    /\ IF timeout[f]
       THEN UNCHANGED <<classList, errorDisplay, errorText, successDisplay, lastResult>>
       ELSE /\ SetUI(validateAndUpdate(ui, f))
            /\ lastResult' = [lastResult EXCEPT ![f] = validateField(f, fieldValue[f])]
    /\ lastEvent' = [type |-> "blur", field |-> f]
    /\ events' = events + 1
    /\ UNCHANGED <<fieldValue, defaultValue, formSuccessDisplay, timeout, resetTimers,
                   submitRec, callVars>>

\* the focused field loses the focus: the blur listener
BlurEvent(f) ==
    /\ events < MaxEvents
    /\ focused = f
    /\ focused' = NoField
    /\ SetUI(validateAndUpdate(ui, f))
    /\ lastResult' = [lastResult EXCEPT ![f] = validateField(f, fieldValue[f])]
    /\ lastEvent' = [type |-> "blur", field |-> f]
    /\ events' = events + 1
    /\ UNCHANGED <<fieldValue, defaultValue, formSuccessDisplay, timeout, resetTimers,
                   submitRec, callVars>>

\* a field gets the focus while no field has it: the focus listener
FocusEvent(f) ==
    /\ events < MaxEvents
    /\ focused = NoField
    /\ focused' = f
    /\ SetUI(onFocus(ui, f))
    /\ lastEvent' = [type |-> "focus", field |-> f]
    /\ events' = events + 1
    /\ UNCHANGED <<fieldValue, defaultValue, formSuccessDisplay, timeout, resetTimers,
                   lastResult, submitRec, callVars>>

\* the forEach with formData[fieldName] = value outside the else branch
RECURSIVE validateAll_alwaysCollects(_, _)
validateAll_alwaysCollects(i, acc) ==
    IF i > Len(fieldOrder) THEN acc
    ELSE
    LET fieldName        == fieldOrder[i]
        value            == fieldValue[fieldName]
        validationResult == validateField(fieldName, value)
        seen == [acc EXCEPT
                    !.dom = updateFieldUI(@, fieldName, validationResult),
                    !.validated = Append(@, fieldName),
                    !.results[fieldName] = validationResult,
                    !.formData = (fieldName :> value) @@ @]
    IN  IF ~validationResult.isValid
        THEN validateAll_alwaysCollects(i + 1,
                 [seen EXCEPT
                    !.isFormValid = FALSE,
                    !.errors = Append(@, [field |-> fieldName,
                                          message |-> validationResult.message])])
        ELSE validateAll_alwaysCollects(i + 1, seen)

\* the forEach of the submit listener, from the i-th field on; acc carries
\* isFormValid, formData, errors and the decorations, and records which fields
\* were validated (validated) and with what result (results)
RECURSIVE validateAll(_, _)
validateAll(i, acc) ==
    IF i > Len(fieldOrder) THEN acc
    ELSE
    LET fieldName        == fieldOrder[i]
        value            == fieldValue[fieldName]
        validationResult == validateField(fieldName, value)
        seen == [acc EXCEPT
                    !.dom = updateFieldUI(@, fieldName, validationResult),
                    !.validated = Append(@, fieldName),
                    !.results[fieldName] = validationResult]
    IN  IF ~validationResult.isValid
        THEN validateAll(i + 1,
                 [seen EXCEPT
                    !.isFormValid = FALSE,
                    !.errors = Append(@, [field |-> fieldName,
                                          message |-> validationResult.message])])
        ELSE validateAll(i + 1,
                 [seen EXCEPT !.formData = (fieldName :> value) @@ @])

\* find() returning the last field that carries "error"
firstErrorField_last(dom) ==
    LET places == {i \in 1..Len(fieldOrder) : "error" \in dom.classList[fieldOrder[i]]}
    IN  IF places = {} THEN NoField
        ELSE fieldOrder[CHOOSE i \in places : \A j \in places : i >= j]

\* Object.keys(fields).find(...): the first field that carries "error"
firstErrorField(dom) ==
    LET places == {i \in 1..Len(fieldOrder) : "error" \in dom.classList[fieldOrder[i]]}
    IN  IF places = {} THEN NoField
        ELSE fieldOrder[CHOOSE i \in places : \A j \in places : i <= j]

SubmitRecord(acc, path) ==
    [prevented |-> TRUE, path |-> path, formData |-> acc.formData,
     errors |-> acc.errors, validated |-> acc.validated]

handleSuccessfulSubmission(acc) ==
    /\ formSuccessDisplay' = "block"
    /\ resetTimers' = resetTimers + 1
    /\ SetUI(acc.dom)
    /\ lastResult' = acc.results
    /\ submitRec' = SubmitRecord(acc, "success")
    /\ UNCHANGED focused

\* the failure path without the hiding of the success indicator
handleFailedSubmission_keepsIndicator(acc) ==
    LET target == firstErrorField(acc.dom)
        moves  == target # NoField /\ target # focused
        blurs  == moves /\ focused # NoField
        afterBlur == IF blurs THEN validateAndUpdate(acc.dom, focused) ELSE acc.dom
    IN  /\ SetUI(IF moves THEN onFocus(afterBlur, target) ELSE acc.dom)
        /\ focused' = IF moves THEN target ELSE focused
        /\ lastResult' =
               IF blurs
               THEN [acc.results EXCEPT
                        ![focused] = validateField(focused, fieldValue[focused])]
               ELSE acc.results
        /\ submitRec' = SubmitRecord(acc, "failure")
        /\ UNCHANGED <<resetTimers, formSuccessDisplay>>

\* fields[firstErrorField].focus() moves the focus unless the field has it
\* already: the field that had the focus gets a blur event, then the first
\* error field a focus event, and both listeners run before focus() returns
handleFailedSubmission(acc) ==
    LET target == firstErrorField(acc.dom)
        moves  == target # NoField /\ target # focused
        blurs  == moves /\ focused # NoField
        afterBlur == IF blurs THEN validateAndUpdate(acc.dom, focused) ELSE acc.dom
    IN  /\ formSuccessDisplay' = "none"
        /\ SetUI(IF moves THEN onFocus(afterBlur, target) ELSE acc.dom)
        /\ focused' = IF moves THEN target ELSE focused
        /\ lastResult' =
               IF blurs
               THEN [acc.results EXCEPT
                        ![focused] = validateField(focused, fieldValue[focused])]
               ELSE acc.results
        /\ submitRec' = SubmitRecord(acc, "failure")
        /\ UNCHANGED resetTimers

\* the submit listener
SubmitEvent ==
    /\ events < MaxEvents
    /\ LET acc == validateAll(1, [dom |-> ui, isFormValid |-> TRUE, formData |-> <<>>,
                                  errors |-> <<>>, validated |-> <<>>,
                                  results |-> lastResult])
       IN  IF acc.isFormValid
           THEN handleSuccessfulSubmission(acc)
           ELSE handleFailedSubmission(acc)
    /\ lastEvent' = [type |-> "submit", field |-> NoField]
    /\ events' = events + 1
    /\ UNCHANGED <<fieldValue, defaultValue, timeout, callVars>>

\* a reset that restores the values but leaves the success decoration in place
resetForm_keepsSuccess ==
    /\ fieldValue' = defaultValue
    /\ classList' = [f \in Fields |-> classList[f] \ {"error"}]
    /\ errorDisplay' = [f \in Fields |-> "none"]
    /\ successDisplay' = [f \in Fields |-> "none"]
    /\ formSuccessDisplay' = "none"
    /\ UNCHANGED errorText

\* form.reset() and the clearing of every decoration
resetForm ==
    /\ fieldValue' = defaultValue
    /\ classList' = [f \in Fields |-> classList[f] \ {"success", "error"}]
    /\ errorDisplay' = [f \in Fields |-> "none"]
    /\ successDisplay' = [f \in Fields |-> "none"]
    /\ formSuccessDisplay' = "none"
    /\ UNCHANGED errorText

\* a reset-offer timer fires: confirm() is answered with accept
ResetOffer(accept) ==
    /\ resetTimers > 0
    /\ resetTimers' = resetTimers - 1
    /\ IF accept THEN resetForm
       ELSE UNCHANGED <<fieldValue, classList, errorDisplay, errorText,
                        successDisplay, formSuccessDisplay>>
    /\ lastEvent' = [type |-> IF accept THEN "reset" ELSE "declined", field |-> NoField]
    /\ UNCHANGED <<defaultValue, focused, timeout, lastResult, submitRec, events,
                   callVars>>

\* The script never assigns a field's value: after construction each field
\* holds the value the markup gives it, which is also what form.reset() puts
\* back.  The markup is outside the script, so the initial state draws it from
\* PrefilledForms: the empty form, a form that passes, and the passing form
\* with one field replaced by a value that fails.  Typed(f) is what the user
\* may type into field f.
GoodValue ==
    [fullName |-> "Al", email |-> "a@b.co", phone |-> "1234567890",
     password |-> "Abcdef1!", confirmPassword |-> "Abcdef1!", age |-> "13",
     website |-> "http://a.bc", message |-> "0123456789"]
BadValue ==
    [fullName |-> "A", email |-> "bad", phone |-> "12",
     password |-> " Abcdef1!", confirmPassword |-> " Abcdef1!", age |-> "12",
     website |-> "a.bc", message |-> "short"]
EmptyForm == [f \in Fields |-> ""]
PrefilledForms ==
    {EmptyForm, GoodValue}
        \cup {[GoodValue EXCEPT ![f] = BadValue[f]] : f \in Fields}
Typed(f) == {GoodValue[f], BadValue[f], " "}

Init ==
    /\ \E values \in PrefilledForms : Untouched(values)
    /\ WidgetsLoaded
    /\ callName = NoField
    /\ callValue = ""
    /\ callResult = NoResult
    /\ pc = "form"

\* the form with time left out: a pending timer may fire at any later step
Next ==
    \/ \E f \in Fields : \E v \in Typed(f) : InputEvent(f, v) /\ UNCHANGED <<timeVars, widgetVars>>
    \/ \E f \in Fields : TimerFires(f) /\ UNCHANGED <<timeVars, widgetVars>>
    \/ \E f \in Fields : BlurEvent(f) /\ UNCHANGED <<timeVars, widgetVars>>
    \/ \E f \in Fields : FocusEvent(f) /\ UNCHANGED <<timeVars, widgetVars>>
    \/ SubmitEvent /\ UNCHANGED <<timeVars, widgetVars>>
    \/ \E accept \in BOOLEAN : ResetOffer(accept) /\ UNCHANGED <<timeVars, widgetVars>>

Spec == Init /\ [][Next]_vars

(***************************************************************************)
(* The form with time: the browser's timer table, the debounce closures    *)
(* and the clock.  A timer fires when its time left is 0, and time does    *)
(* not pass a timer that is due; events may still be handled at that       *)
(* instant before the timer fires.                                         *)
(***************************************************************************)
\* Within Wait of the next timer the clock advances in steps of
\* Wait / Granularity or to the moment the timer is due; earlier than that it
\* may also jump to Wait before the timer.  No timer is shorter than Wait, so
\* a timer started before that moment cannot be due later than the next one.
Granularity == 2
TickUnit == Wait \div Granularity

clearTimeout(table, id) == {t \in table : t.id # id}

setTimeout(table, id, kind, field, delay) ==
    table \cup {[id |-> id, kind |-> kind, field |-> field, left |-> delay]}

\* executedFunction without its clearTimeout
executedFunction_noClear(table, f) ==
    setTimeout(table, nextTimerId, "debounce", f, Wait)

\* executedFunction of debounce(): clearTimeout(timeout), then setTimeout(later, wait)
executedFunction(table, f) ==
    setTimeout(clearTimeout(table, timeoutId[f]), nextTimerId, "debounce", f, Wait)

Pending(table, kind, f) == {t \in table : t.kind = kind /\ t.field = f}

TimedInput(f, v) ==
    /\ InputEvent(f, v)
    /\ timerTable' = executedFunction(timerTable, f)
    /\ timeoutId' = [timeoutId EXCEPT ![f] = nextTimerId]
    /\ nextTimerId' = nextTimerId + 1
    /\ sinceInput' = [sinceInput EXCEPT ![f] = 0]

\* later(): clearTimeout(timeout), then the debounced callback
TimedTimerFires(f) ==
    \E t \in Pending(timerTable, "debounce", f) :
        /\ t.left = 0
        /\ TimerFires(f)
        /\ timerTable' = clearTimeout(timerTable \ {t}, timeoutId[f])
        /\ UNCHANGED <<timeoutId, nextTimerId, sinceInput>>

TimedBlur(f) == BlurEvent(f) /\ UNCHANGED timeVars

TimedFocus(f) == FocusEvent(f) /\ UNCHANGED timeVars

\* the successful path ends with setTimeout(..., 2000)
TimedSubmit ==
    /\ SubmitEvent
    /\ IF submitRec'.path = "success"
       THEN /\ timerTable' = setTimeout(timerTable, nextTimerId, "reset", NoField, ResetDelay)
            /\ nextTimerId' = nextTimerId + 1
       ELSE UNCHANGED <<timerTable, nextTimerId>>
    /\ UNCHANGED <<timeoutId, sinceInput>>

TimedResetOffer(accept) ==
    \E t \in Pending(timerTable, "reset", NoField) :
        /\ t.left = 0
        /\ ResetOffer(accept)
        /\ timerTable' = timerTable \ {t}
        /\ UNCHANGED <<timeoutId, nextTimerId, sinceInput>>

\* time d passes
Tick(d) ==
    /\ d > 0
    /\ timerTable # {}
    /\ \A t \in timerTable : t.left >= d
    /\ timerTable' = {[t EXCEPT !.left = @ - d] : t \in timerTable}
    /\ sinceInput' = [f \in Fields |-> IF sinceInput[f] + d > Wait THEN Wait
                                       ELSE sinceInput[f] + d]
    /\ lastEvent' = [type |-> "tick", field |-> NoField]
    /\ UNCHANGED <<fieldValue, defaultValue, classList, errorDisplay, errorText,
                   successDisplay, formSuccessDisplay, focused, timeout, resetTimers,
                   lastResult, submitRec, events, callVars, timeoutId, nextTimerId>>

NextDue == CHOOSE d \in {t.left : t \in timerTable} : \A t \in timerTable : d <= t.left

NextTimed ==
    \/ \E f \in Fields : \E v \in Typed(f) : TimedInput(f, v) /\ UNCHANGED widgetVars
    \/ \E f \in Fields : TimedTimerFires(f) /\ UNCHANGED widgetVars
    \/ \E f \in Fields : TimedBlur(f) /\ UNCHANGED widgetVars
    \/ \E f \in Fields : TimedFocus(f) /\ UNCHANGED widgetVars
    \/ TimedSubmit /\ UNCHANGED widgetVars
    \/ \E accept \in BOOLEAN : TimedResetOffer(accept) /\ UNCHANGED widgetVars
    \/ timerTable # {} /\ NextDue <= Wait /\ Tick(TickUnit) /\ UNCHANGED widgetVars
    \/ timerTable # {} /\ NextDue > Wait /\ Tick(NextDue - Wait) /\ UNCHANGED widgetVars
    \/ timerTable # {} /\ Tick(NextDue) /\ UNCHANGED widgetVars

\* the timed form starts from the empty form or from the form that passes
InitTimed ==
    /\ \E values \in {EmptyForm, GoodValue} : Untouched(values)
    /\ WidgetsLoaded
    /\ callName = NoField
    /\ callValue = ""
    /\ callResult = NoResult
    /\ pc = "form"

SpecTimed == InitTimed /\ [][NextTimed]_vars

(***************************************************************************)
(* The widgets.  Each has a specification of its own, in which the form    *)
(* and the other widgets stay as they were loaded.                         *)
(***************************************************************************)
\* what a widget's listener leaves alone in the form
quietForm == <<fieldValue, defaultValue, classList, errorDisplay, errorText,
               successDisplay, formSuccessDisplay, focused, timeout, resetTimers,
               lastResult, submitRec, events, callVars, timeVars>>

\* the form and the direct call as they are when the page has loaded
FormLoaded ==
    /\ Untouched(EmptyForm)
    /\ callName = NoField
    /\ callValue = ""
    /\ callResult = NoResult
    /\ pc = "form"

\* at most MaxPending style timers are pending at a time
MaxPending == 2

\* the number of pending style timers, all elements together
PendingTotal == Cardinality({<<e, i>> \in Timed \X (1..MaxPending) : i <= styleTimers[e]})

\* what the timer of element e sets its style.transform to
restored(e) == IF e \in {"themeToggle", "counterDisplay"} THEN "scale(1)" ELSE ""

\* one of the fire-and-forget timers of element e fires
StyleTimerFires(e) ==
    /\ styleTimers[e] > 0
    /\ styleTimers' = [styleTimers EXCEPT ![e] = @ - 1]
    /\ IF e \in TabPanels
       THEN /\ panelStyle' = [panelStyle EXCEPT ![e] =
                                 [opacity |-> "1", transform |-> "translateY(0)",
                                  transition |-> "all 0.3s ease"]]
            /\ UNCHANGED transform
       ELSE /\ transform' = [transform EXCEPT ![e] = restored(e)]
            /\ UNCHANGED panelStyle
    /\ lastEvent' = [type |-> "style", field |-> NoField]
    /\ UNCHANGED <<themeVars, counterVars, faqVars, btnActive, panelActive, dropVars, quietForm>>

(***************************************************************************)
(* Theme toggle                                                            *)
(***************************************************************************)
\* the click listener of themeToggle
ToggleClick ==
    /\ PendingTotal < MaxPending
    /\ LET newTheme == IF isLight THEN "dark" ELSE "light"
           st == saveTheme(storageCondition, store, newTheme)
       IN  /\ bodyClass' = (bodyClass \ {"light-theme", "dark-theme"})
                               \cup {newTheme \o "-theme"}
           /\ themeToggleText' = updateThemeToggleText(newTheme)
           /\ localStorageTheme' = st.localStorageTheme
           /\ currentTheme' = st.currentTheme
    /\ transform' = [transform EXCEPT !["themeToggle"] = "scale(0.95)"]
    /\ styleTimers' = [styleTimers EXCEPT !["themeToggle"] = @ + 1]
    /\ lastEvent' = [type |-> "toggle", field |-> NoField]
    /\ UNCHANGED <<storageCondition, counterVars, faqVars, tabVars, dropVars, quietForm>>

\* the page is loaded again, in a session whose storage behaves as cond:
\* window.currentTheme and the pending timers are gone, localStorage is kept,
\* and initializeThemeToggle runs
Reload(cond) ==
    /\ storageCondition' = cond
    /\ currentTheme' = Undefined
    /\ bodyClass' = {savedTheme(cond, [localStorageTheme |-> localStorageTheme,
                                       currentTheme |-> Undefined]) \o "-theme"}
    /\ themeToggleText' =
           updateThemeToggleText(savedTheme(cond, [localStorageTheme |-> localStorageTheme,
                                                   currentTheme |-> Undefined]))
    /\ transform' = [e \in Transformed |-> IF e = "counterDisplay" THEN "scale(1.1)" ELSE ""]
    /\ styleTimers' = [e \in Timed |-> IF e = "counterDisplay" THEN 1 ELSE 0]
    /\ lastEvent' = NoEvent
    /\ UNCHANGED <<localStorageTheme, counterVars, faqVars, tabVars, dropVars, quietForm>>

\* the first visit: localStorage holds no preference yet
InitTheme ==
    /\ \E cond \in StorageConditions : ThemeLoaded(cond, Null)
    /\ CounterLoaded
    /\ FaqLoaded({}, {})
    /\ TabsLoaded({}, {})
    /\ DropdownLoaded
    /\ StylesLoaded
    /\ FormLoaded

NextTheme ==
    \/ ToggleClick
    \/ \E e \in {"themeToggle", "counterDisplay"} : StyleTimerFires(e)
    \/ \E cond \in StorageConditions : Reload(cond)

SpecTheme == InitTheme /\ [][NextTheme]_vars

(***************************************************************************)
(* Counter                                                                 *)
(***************************************************************************)
\* count is a JavaScript number; the model follows it up to MaxCount either way
MaxCount == 105

\* Math.floor(Math.random() * 201) is one of 0..200
RandomFloor == 0..200

\* updateDisplay(): the text and the colour of the display
updateDisplay(c) ==
    /\ displayText' = NumberToString(c)
    /\ displayColor' = displayColorOf(c)

\* what the click listener of button btn assigns to count; k is the random draw
clicked(btn, k) ==
    IF btn = "incrementBtn" THEN count + 1
    ELSE IF btn = "increment5Btn" THEN count + 5
    ELSE IF btn = "decrementBtn" THEN count - 1
    ELSE IF btn = "resetBtn" THEN 0
    ELSE k - 100

\* the click listener of a counter button, with updateDisplay and addButtonFeedback
CounterClick(btn, k) ==
    /\ PendingTotal + 2 <= MaxPending
    /\ clicked(btn, k) \in -MaxCount..MaxCount
    /\ count' = clicked(btn, k)
    /\ updateDisplay(clicked(btn, k))
    /\ transform' = [transform EXCEPT !["counterDisplay"] = "scale(1.1)",
                                      ![btn] = "translateY(-2px) scale(0.95)"]
    /\ styleTimers' = [styleTimers EXCEPT !["counterDisplay"] = @ + 1, ![btn] = @ + 1]
    /\ lastEvent' = [type |-> "click", field |-> btn]
    /\ UNCHANGED <<themeVars, faqVars, tabVars, dropVars, quietForm>>

Keys == {"ArrowUp", "ArrowDown", " ", "a"}
TagNames == {"INPUT", "TEXTAREA", "BUTTON", "BODY"}
toLowerCase(tag) ==
    IF tag = "INPUT" THEN "input" ELSE IF tag = "TEXTAREA" THEN "textarea"
    ELSE IF tag = "BUTTON" THEN "button" ELSE "body"

\* the keydown listener of the document
Keydown(key, tag) ==
    IF toLowerCase(tag) = "input" \/ toLowerCase(tag) = "textarea" \/ key = "a"
    THEN /\ lastEvent' = [type |-> "ignored", field |-> NoField]
         /\ UNCHANGED <<counterVars, styleVars, themeVars, faqVars, tabVars, dropVars, quietForm>>
    ELSE /\ PendingTotal < MaxPending
         /\ LET c == IF key = "ArrowUp" THEN count + 1
                     ELSE IF key = "ArrowDown" THEN count - 1 ELSE 0
            IN  /\ c \in -MaxCount..MaxCount
                /\ count' = c
                /\ updateDisplay(c)
         /\ transform' = [transform EXCEPT !["counterDisplay"] = "scale(1.1)"]
         /\ styleTimers' = [styleTimers EXCEPT !["counterDisplay"] = @ + 1]
         /\ lastEvent' = [type |-> "keydown", field |-> key]
         /\ UNCHANGED <<themeVars, faqVars, tabVars, dropVars, quietForm>>

InitCounter ==
    /\ WidgetsLoaded
    /\ FormLoaded

NextCounter ==
    \/ \E btn \in CounterButtons \ {"randomBtn"} : CounterClick(btn, 0)
    \/ \E k \in RandomFloor : CounterClick("randomBtn", k)
    \/ \E key \in Keys : \E tag \in TagNames : Keydown(key, tag)
    \/ \E e \in {"counterDisplay"} \cup CounterButtons : StyleTimerFires(e)

SpecCounter == InitCounter /\ [][NextCounter]_vars

(***************************************************************************)
(* FAQ accordion                                                           *)
(***************************************************************************)
\* the click listener that leaves the other items as they are
FaqClick_keepsOthers(q) ==
    /\ IF q \notin FaqItems
       THEN UNCHANGED <<answerActive, iconActive>>
       ELSE /\ answerActive' = [answerActive EXCEPT ![q] = ~answerActive[q]]
            /\ iconActive' = [iconActive EXCEPT ![q] = ~answerActive[q]]
    /\ lastEvent' = [type |-> "faqClick", field |-> NumberToString(q)]
    /\ UNCHANGED <<faqTransform, mouseOver, themeVars, counterVars, tabVars, styleVars,
                   dropVars, quietForm>>

\* the click listener of question q: return when the answer is missing,
\* close every other item, then toggle this one
FaqClick(q) ==
    /\ IF q \notin FaqItems
       THEN UNCHANGED <<answerActive, iconActive>>
       ELSE /\ answerActive' = [i \in FaqItems |-> i = q /\ ~answerActive[q]]
            /\ iconActive' = [i \in FaqItems |-> i = q /\ ~answerActive[q]]
    /\ lastEvent' = [type |-> "faqClick", field |-> NumberToString(q)]
    /\ UNCHANGED <<faqTransform, mouseOver, themeVars, counterVars, tabVars, styleVars,
                   dropVars, quietForm>>

\* the mouseenter listener of question q
MouseEnter(q) ==
    /\ mouseOver = NoQuestion
    /\ mouseOver' = q
    /\ faqTransform' = [faqTransform EXCEPT ![q] = "translateX(5px)"]
    /\ lastEvent' = [type |-> "mouseenter", field |-> NumberToString(q)]
    /\ UNCHANGED <<answerActive, iconActive, themeVars, counterVars, tabVars, styleVars,
                   dropVars, quietForm>>

\* the mouseleave listener of question q
MouseLeave(q) ==
    /\ mouseOver = q
    /\ mouseOver' = NoQuestion
    /\ faqTransform' = [faqTransform EXCEPT ![q] = ""]
    /\ lastEvent' = [type |-> "mouseleave", field |-> NumberToString(q)]
    /\ UNCHANGED <<answerActive, iconActive, themeVars, counterVars, tabVars, styleVars,
                   dropVars, quietForm>>

\* the markup marks at most one answer active, and any icons
InitFAQ ==
    /\ \E active \in {a \in SUBSET FaqItems : Cardinality(a) <= 1} :
       \E icons \in SUBSET FaqItems : FaqLoaded(active, icons)
    /\ ThemeLoaded("available", Null)
    /\ CounterLoaded
    /\ TabsLoaded({}, {})
    /\ DropdownLoaded
    /\ StylesLoaded
    /\ FormLoaded

NextFAQ ==
    \/ \E q \in FaqQuestions : FaqClick(q)
    \/ \E q \in FaqQuestions : MouseEnter(q)
    \/ \E q \in FaqQuestions : MouseLeave(q)

SpecFAQ == InitFAQ /\ [][NextFAQ]_vars

(***************************************************************************)
(* Tabs                                                                    *)
(***************************************************************************)
\* the panel a button's data-tab names, if the document has it
targetPanel(b) == IF dataTab[b] \in TabPanels THEN {dataTab[b]} ELSE {}

\* click listeners under which a click on the active tab closes it
TabClick_toggles(b) ==
    /\ PendingTotal + 1 + Cardinality(targetPanel(b)) <= MaxPending
    /\ btnActive' = [x \in TabButtons |-> x = b /\ ~btnActive[b]]
    /\ panelActive' = [p \in TabPanels |-> p \in targetPanel(b) /\ ~btnActive[b]]
    /\ panelStyle' = [p \in TabPanels |->
                         IF p \in targetPanel(b)
                         THEN [panelStyle[p] EXCEPT !.opacity = "0",
                                                    !.transform = "translateY(10px)"]
                         ELSE panelStyle[p]]
    /\ transform' = [transform EXCEPT ![b] = "scale(0.95)"]
    /\ styleTimers' = [e \in Timed |->
                          IF e = b \/ e \in targetPanel(b) THEN styleTimers[e] + 1
                          ELSE styleTimers[e]]
    /\ lastEvent' = [type |-> "tabClick", field |-> b]
    /\ UNCHANGED <<themeVars, counterVars, faqVars, dropVars, quietForm>>

\* the two click listeners of tab button b, in the order they were added
TabClick(b) ==
    /\ PendingTotal + 1 + Cardinality(targetPanel(b)) <= MaxPending
    /\ btnActive' = [x \in TabButtons |-> x = b]
    /\ panelActive' = [p \in TabPanels |-> p \in targetPanel(b)]
    /\ panelStyle' = [p \in TabPanels |->
                         IF p \in targetPanel(b)
                         THEN [panelStyle[p] EXCEPT !.opacity = "0",
                                                    !.transform = "translateY(10px)"]
                         ELSE panelStyle[p]]
    /\ transform' = [transform EXCEPT ![b] = "scale(0.95)"]
    /\ styleTimers' = [e \in Timed |->
                          IF e = b \/ e \in targetPanel(b) THEN styleTimers[e] + 1
                          ELSE styleTimers[e]]
    /\ lastEvent' = [type |-> "tabClick", field |-> b]
    /\ UNCHANGED <<themeVars, counterVars, faqVars, dropVars, quietForm>>

\* the markup may mark any buttons and panels active
InitTabs ==
    /\ \E buttons \in SUBSET TabButtons : \E panels \in SUBSET TabPanels :
           TabsLoaded(buttons, panels)
    /\ ThemeLoaded("available", Null)
    /\ CounterLoaded
    /\ FaqLoaded({}, {})
    /\ DropdownLoaded
    /\ StylesLoaded
    /\ FormLoaded

NextTabs ==
    \/ \E b \in TabButtons : TabClick(b)
    \/ \E e \in TabButtons \cup TabPanels \cup {"counterDisplay"} : StyleTimerFires(e)

SpecTabs == InitTabs /\ [][NextTabs]_vars

(***************************************************************************)
(* Dropdown menu, its actions and the notifications, with time.  The       *)
(* timers are kept in timerTable as in the timed form; the field of a      *)
(* timer holds what its callback has captured.  The clock advances to the  *)
(* moment the next timer is due, and a click may come at any such moment.  *)
(***************************************************************************)
\* at most MaxClicks clicks and pointer moves are followed
MaxClicks == 3

OpenDelay == 10
CloseDelay == 200
ColorDelay == 3000
AnimateDelay1 == 150
AnimateDelay2 == 300
AnimateDelay3 == 600
ShowDelay == 100
HideDelay == 3000
RemoveDelay == 300

colors ==
    <<"linear-gradient(135deg, #667eea 0%, #764ba2 100%)",
      "linear-gradient(135deg, #f093fb 0%, #f5576c 100%)",
      "linear-gradient(135deg, #4facfe 0%, #00f2fe 100%)",
      "linear-gradient(135deg, #43e97b 0%, #38f9d7 100%)",
      "linear-gradient(135deg, #fa709a 0%, #fee140 100%)",
      "linear-gradient(135deg, #a8edea 0%, #fed6e3 100%)",
      "linear-gradient(135deg, #ff9a9e 0%, #fecfef 100%)">>

\* what the listeners of the dropdown leave alone
dropRest == <<themeVars, counterVars, faqVars, tabVars, styleVars,
              fieldValue, defaultValue, classList, errorDisplay, errorText,
              successDisplay, formSuccessDisplay, focused, timeout, resetTimers,
              lastResult, submitRec, callVars, timeoutId, sinceInput>>

\* openDropdown(): the menu's style, and the timer that fades it in
openedMenu == [menuStyle EXCEPT !.display = "block", !.opacity = "0",
                                !.transform = "translateY(-10px)"]

openDropdown(table, id) == setTimeout(table, id, "open", NoField, OpenDelay)

\* closeDropdown(): the menu's style, and the timer that hides it
closedMenu == [menuStyle EXCEPT !.opacity = "0", !.transform = "translateY(-10px)"]

closeDropdown(table, id) == setTimeout(table, id, "close", NoField, CloseDelay)

\* showNotification(): the new element, named after its first timer, and
\* its two timers
newBanner(id) ==
    [id |-> NumberToString(id), opacity |-> "0", transform |-> "translateY(-20px)"]

showNotification(table, id) ==
    setTimeout(setTimeout(table, id, "notifyShow", NumberToString(id), ShowDelay),
               id + 1, "notifyHide", NumberToString(id), HideDelay)

\* the click listener of dropdownToggle
DropdownToggleClick ==
    /\ events < MaxClicks
    /\ IF menuStyle.display = "block"
       THEN /\ menuStyle' = closedMenu
            /\ arrowTransform' = "rotate(0deg)"
            /\ timerTable' = closeDropdown(timerTable, nextTimerId)
       ELSE /\ menuStyle' = openedMenu
            /\ arrowTransform' = "rotate(180deg)"
            /\ timerTable' = openDropdown(timerTable, nextTimerId)
    /\ nextTimerId' = nextTimerId + 1
    /\ events' = events + 1
    /\ lastEvent' = [type |-> "toggleClick", field |-> NoField]
    /\ UNCHANGED <<itemStyle, bodyStyle, banners, dropRest>>

\* the click listener of the document, for a click outside toggle and menu
OutsideClick ==
    /\ events < MaxClicks
    /\ menuStyle' = closedMenu
    /\ arrowTransform' = "rotate(0deg)"
    /\ timerTable' = closeDropdown(timerTable, nextTimerId)
    /\ nextTimerId' = nextTimerId + 1
    /\ events' = events + 1
    /\ lastEvent' = [type |-> "outsideClick", field |-> NoField]
    /\ UNCHANGED <<itemStyle, bodyStyle, banners, dropRest>>

\* the click listener of a dropdown item, which can be clicked while the menu
\* is displayed: executeDropdownAction(action), then closeDropdown(); k is
\* Math.floor(Math.random() * colors.length)
ItemClick(action, k) ==
    /\ events < MaxClicks
    /\ menuStyle.display = "block"
    /\ IF action = "color"
       THEN \* changePageColors()
            /\ bodyStyle' = [bodyStyle EXCEPT !.background = colors[k + 1],
                                              !.transition = "background 0.5s ease"]
            /\ banners' = banners \cup {newBanner(nextTimerId)}
            /\ timerTable' =
                   closeDropdown(
                       setTimeout(showNotification(timerTable, nextTimerId),
                                  nextTimerId + 2, "color", bodyStyle.background,
                                  ColorDelay),
                       nextTimerId + 3)
            /\ nextTimerId' = nextTimerId + 4
       ELSE IF action = "animate"
       THEN \* animatePage()
            /\ bodyStyle' = [bodyStyle EXCEPT !.transform = "scale(0.95)",
                                              !.transition = "transform 0.3s ease"]
            /\ banners' = banners \cup {newBanner(nextTimerId)}
            /\ timerTable' =
                   closeDropdown(
                       setTimeout(
                           setTimeout(
                               setTimeout(showNotification(timerTable, nextTimerId),
                                          nextTimerId + 2, "animate1", NoField,
                                          AnimateDelay1),
                               nextTimerId + 3, "animate2", NoField, AnimateDelay2),
                           nextTimerId + 4, "animate3", NoField, AnimateDelay3),
                       nextTimerId + 5)
            /\ nextTimerId' = nextTimerId + 6
       ELSE \* alert(), or console.warn() for an unknown action
            /\ timerTable' = closeDropdown(timerTable, nextTimerId)
            /\ nextTimerId' = nextTimerId + 1
            /\ UNCHANGED <<bodyStyle, banners>>
    /\ menuStyle' = closedMenu
    /\ arrowTransform' = "rotate(0deg)"
    /\ events' = events + 1
    /\ lastEvent' = [type |-> "itemClick", field |-> action]
    /\ UNCHANGED <<itemStyle, dropRest>>

\* the mouseenter listener of an item, while the pointer is over no item
ItemMouseEnter(item) ==
    /\ events < MaxClicks
    /\ menuStyle.display = "block"
    /\ \A i \in DropdownItems : itemStyle[i].transform = ""
    /\ itemStyle' = [itemStyle EXCEPT ![item] = [transform |-> "translateX(5px)",
                                                  transition |-> "transform 0.2s ease"]]
    /\ events' = events + 1
    /\ lastEvent' = [type |-> "mouseenter", field |-> item]
    /\ UNCHANGED <<menuStyle, arrowTransform, bodyStyle, banners, timerTable,
                   nextTimerId, dropRest>>

\* the mouseleave listener of the item the pointer is over
ItemMouseLeave(item) ==
    /\ itemStyle[item].transform # ""
    /\ itemStyle' = [itemStyle EXCEPT ![item].transform = ""]
    /\ lastEvent' = [type |-> "mouseleave", field |-> item]
    /\ UNCHANGED <<menuStyle, arrowTransform, bodyStyle, banners, timerTable,
                   nextTimerId, events, dropRest>>

\* the timers of the given kinds that fire next: due, and set before every
\* other timer that is due
Due(kinds) ==
    {t \in timerTable : /\ t.kind \in kinds
                        /\ t.left = 0
                        /\ \A u \in timerTable : u.left = 0 => t.id <= u.id}

\* a timer of openDropdown or closeDropdown fires
MenuTimerFires ==
    \E t \in Due({"open", "close"}) :
        /\ menuStyle' = IF t.kind = "open"
                        THEN [menuStyle EXCEPT !.opacity = "1",
                                               !.transform = "translateY(0)",
                                               !.transition = "all 0.2s ease"]
                        ELSE [menuStyle EXCEPT !.display = "none"]
        /\ timerTable' = timerTable \ {t}
        /\ lastEvent' = [type |-> t.kind, field |-> NoField]
        /\ UNCHANGED <<arrowTransform, itemStyle, bodyStyle, banners, nextTimerId,
                       events, dropRest>>

\* a timer of changePageColors or animatePage fires
BodyTimerFires ==
    \E t \in Due({"color", "animate1", "animate2", "animate3"}) :
        /\ bodyStyle' =
               IF t.kind = "color" THEN [bodyStyle EXCEPT !.background = t.field]
               ELSE IF t.kind = "animate1" THEN [bodyStyle EXCEPT !.transform = "scale(1.02)"]
               ELSE IF t.kind = "animate2" THEN [bodyStyle EXCEPT !.transform = "scale(1)"]
               ELSE [bodyStyle EXCEPT !.transform = "", !.transition = ""]
        /\ timerTable' = timerTable \ {t}
        /\ lastEvent' = [type |-> t.kind, field |-> NoField]
        /\ UNCHANGED <<menuStyle, arrowTransform, itemStyle, banners, nextTimerId,
                       events, dropRest>>

\* a timer of showNotification fires
BannerTimerFires ==
    \E t \in Due({"notifyShow", "notifyHide", "notifyRemove"}) :
        /\ banners' =
               IF t.kind = "notifyShow"
               THEN {IF b.id = t.field
                     THEN [b EXCEPT !.opacity = "1", !.transform = "translateY(0)"]
                     ELSE b : b \in banners}
               ELSE IF t.kind = "notifyHide"
               THEN {IF b.id = t.field
                     THEN [b EXCEPT !.opacity = "0", !.transform = "translateY(-20px)"]
                     ELSE b : b \in banners}
               ELSE {b \in banners : b.id # t.field}
        /\ IF t.kind = "notifyHide"
           THEN /\ timerTable' = setTimeout(timerTable \ {t}, nextTimerId, "notifyRemove",
                                            t.field, RemoveDelay)
                /\ nextTimerId' = nextTimerId + 1
           ELSE /\ timerTable' = timerTable \ {t}
                /\ UNCHANGED nextTimerId
        /\ lastEvent' = [type |-> t.kind, field |-> NoField]
        /\ UNCHANGED <<menuStyle, arrowTransform, itemStyle, bodyStyle, events, dropRest>>

InitDropdown ==
    /\ WidgetsLoaded
    /\ FormLoaded

NextDropdown ==
    \/ DropdownToggleClick
    \/ OutsideClick
    \/ \E action \in DropdownItems \ {"color"} : ItemClick(action, 0)
    \/ \E k \in 0..(Len(colors) - 1) : ItemClick("color", k)
    \/ \E item \in DropdownItems : ItemMouseEnter(item)
    \/ \E item \in DropdownItems : ItemMouseLeave(item)
    \/ MenuTimerFires
    \/ BodyTimerFires
    \/ BannerTimerFires
    \/ timerTable # {} /\ Tick(NextDue) /\ UNCHANGED widgetVars

SpecDropdown == InitDropdown /\ [][NextDropdown]_vars

(***************************************************************************)
(* Properties of validateField, checked under SpecValidate                 *)
(***************************************************************************)
\* the value has no character other than white space
IsBlank(s) == \A k \in 1..Len(s) : charAt(s, k) \in WhiteSpace

OptionalFields == {f \in Fields : ~validationRules[f].required}
RequiredFields == {f \in Fields : validationRules[f].required}

\* C1: for every field whose rule is not required (phone, age, website),
\* validateField returns a valid result whenever the value is empty or holds
\* only white space, whatever length, pattern or range the rule carries.
C1_OptionalBlankIsValid ==
    /\ OptionalFields = {"phone", "age", "website"}
    /\ (pc = "done" /\ callName \in OptionalFields /\ IsBlank(callValue))
           => callResult = Valid

C1_Witness ==
    /\ pc = "done" /\ callName = "phone" /\ callValue = "\n \t"
    /\ callResult = Valid

\* C2: for every required field (fullName, email, password, confirmPassword,
\* message), validateField on a value that is empty after trimming returns
\* invalid with the message "<Field Label> is required", the label taken from
\* the label table, and never with the rule's configured message.
C2_RequiredBlankMessage ==
    /\ RequiredFields = {"fullName", "email", "password", "confirmPassword", "message"}
    /\ (pc = "done" /\ callName \in RequiredFields /\ IsBlank(callValue))
           => /\ callResult = Invalid(labels[callName] \o " is required")
              /\ callResult.message # validationRules[callName].message

C2_Witness ==
    /\ pc = "done" /\ callName = "confirmPassword" /\ callValue = "  "
    /\ callResult = Invalid("Confirm Password is required")

\* C3: for a value that is not empty after trimming, the result is valid
\* exactly when every check the field's rule declares (minimum length, maximum
\* length, pattern, numeric range) passes on the trimmed value, and for
\* confirmPassword the trimmed value equals the password field's value; every
\* failure of these checks returns the rule's configured message.
C3_ChecksPass(fieldName, t) ==
    LET rules == validationRules[fieldName]
    IN  /\ Has(rules, "minLength") => Len(t) >= rules.minLength
        /\ Has(rules, "maxLength") => Len(t) <= rules.maxLength
        /\ Has(rules, "pattern") => test(rules.pattern, t)
        /\ (Has(rules, "min") \/ Has(rules, "max")) =>
               /\ ~isNaN(parseInt(t))
               /\ Has(rules, "min") => parseInt(t).value >= rules.min
               /\ Has(rules, "max") => parseInt(t).value <= rules.max
        /\ fieldName = "confirmPassword" => t = fieldValue["password"]

C3_ValidIffAllChecksPass ==
    (pc = "done" /\ callName \in Fields /\ ~IsBlank(callValue)) =>
        IF C3_ChecksPass(callName, trim(callValue))
        THEN callResult = Valid
        ELSE callResult = Invalid(validationRules[callName].message)

\* the length checks pass and the pattern check, which comes after them, decides
C3_Witness ==
    /\ pc = "done" /\ callName = "fullName" /\ callValue = "Anne_Marie"
    /\ callResult = Invalid(validationRules["fullName"].message)

\* C4: validateField("age", v) for a non-blank v is invalid whenever the
\* trimmed v does not parse as a base-10 integer or parses to n < 13 or
\* n > 120, and valid whenever it parses to n with 13 <= n <= 120; 12 and 121
\* are rejected, 13 and 120 are accepted.
C4_AgeRange ==
    (pc = "done" /\ callName = "age" /\ ~IsBlank(callValue)) =>
        LET n == parseInt(trim(callValue))
        IN  /\ (isNaN(n) \/ n.value < 13 \/ n.value > 120) => ~callResult.isValid
            /\ (~isNaN(n) /\ 13 <= n.value /\ n.value <= 120) => callResult.isValid
            /\ callValue \in {"12", "121"} => ~callResult.isValid
            /\ callValue \in {"13", "120"} => callResult.isValid

C4_Witness ==
    /\ pc = "done" /\ callName = "age" /\ callValue = "120"
    /\ callResult = Valid

\* C6: whenever the password field and the confirmPassword field hold the same
\* non-blank text, validateField("confirmPassword", that text) returns valid,
\* also when the text has leading or trailing white space.
C6_SameTextIsValid ==
    (/\ pc = "done" /\ callName = "confirmPassword"
     /\ ~IsBlank(callValue) /\ callValue = fieldValue["password"])
        => callResult.isValid

(***************************************************************************)
(* Properties of the form, checked under Spec                              *)
(***************************************************************************)
\* the fields whose validateField ran in the last step
validatedNow ==
    CASE lastEvent.type \in {"timer", "blur"} -> {lastEvent.field}
      [] lastEvent.type = "submit" -> Fields
      [] OTHER -> {}

\* C5: validateField("confirmPassword", v) for a non-blank v compares the
\* trimmed v with the value the password field has when the validation runs:
\* the result is valid exactly when they are equal, and a mismatch returns the
\* message "Passwords do not match".
C5_ConfirmComparesLivePassword ==
    ("confirmPassword" \in validatedNow /\ ~IsBlank(fieldValue["confirmPassword"]))
        => lastResult["confirmPassword"] =
               IF trim(fieldValue["confirmPassword"]) = fieldValue["password"]
               THEN Valid
               ELSE Invalid("Passwords do not match")

\* confirmPassword found valid against a password typed after the page loaded
C5_Witness ==
    /\ "confirmPassword" \in validatedNow
    /\ fieldValue["password"] # defaultValue["password"]
    /\ trim(fieldValue["confirmPassword"]) = fieldValue["password"]
    /\ lastResult["confirmPassword"] = Valid

\* C8: in every reachable state, a field whose error message element is shown
\* carries the error decoration, its most recent validation returned invalid,
\* and the text shown is the message of that result; a validation that returns
\* valid neither shows the element nor changes its text.
C8_ShownMessage ==
    \A f \in Fields :
        errorDisplay[f] = "block" =>
            /\ "error" \in classList[f]
            /\ lastResult[f] # NoResult
            /\ ~lastResult[f].isValid
            /\ errorText[f] = lastResult[f].message

C8_ValidLeavesMessage ==
    \A f \in Fields :
        (f \in validatedNow' /\ lastResult'[f].isValid) =>
            /\ errorDisplay'[f] # "block"
            /\ errorText'[f] = errorText[f]

C8_ErrorMessageOnlyWhenInvalid == []C8_ShownMessage /\ [][C8_ValidLeavesMessage]_vars

C8_Witness ==
    \E f \in Fields :
        /\ f \in validatedNow
        /\ errorDisplay[f] = "block"
        /\ errorText[f] = validationRules[f].message

\* C9: on every submit event each declared field is validated once, against
\* its value at submit time, and lands in exactly one of the payload map (if
\* valid, keyed by its name, with its value) or the Error Report (if invalid,
\* in declaration order); when all fields pass the payload has the eight field
\* names and the report is empty, and when one field fails the report has
\* length 1 and names that field.
C9_Place(f) == CHOOSE i \in 1..Len(fieldOrder) : fieldOrder[i] = f

C9_SubmitPartition ==
    lastEvent.type = "submit" =>
        LET failing == {f \in Fields : ~validateField(f, fieldValue[f]).isValid}
            payload == submitRec.formData
            report  == submitRec.errors
        IN  /\ submitRec.validated = fieldOrder
            /\ DOMAIN payload = Fields \ failing
            /\ \A f \in DOMAIN payload : payload[f] = fieldValue[f]
            /\ Len(report) = Cardinality(failing)
            /\ {report[i].field : i \in 1..Len(report)} = failing
            /\ \A i \in 1..Len(report) :
                   report[i].message = validateField(report[i].field,
                                                     fieldValue[report[i].field]).message
            /\ \A i, j \in 1..Len(report) :
                   i < j => C9_Place(report[i].field) < C9_Place(report[j].field)
            /\ failing = {} =>
                   Cardinality(DOMAIN payload) = 8 /\ DOMAIN payload = Fields /\ report = <<>>
            /\ \A f \in Fields :
                   failing = {f} => Len(report) = 1 /\ report[1].field = f

C9_Witness ==
    /\ lastEvent.type = "submit"
    /\ Len(submitRec.errors) = 1
    /\ submitRec.errors[1].field = "age"
    /\ DOMAIN submitRec.formData = Fields \ {"age"}

\* C10: every submit event has its default action prevented and takes exactly
\* one of two paths, the success path exactly when the Error Report of this
\* submit is empty and the failure path otherwise; the success indicator is
\* shown on the success path and hidden on the failure path.
C10_SubmitPaths ==
    lastEvent.type = "submit" =>
        /\ submitRec.prevented
        /\ submitRec.path \in {"success", "failure"}
        /\ submitRec.path = "success" <=> submitRec.errors = <<>>
        /\ submitRec.path = "success" => formSuccessDisplay = "block"
        /\ submitRec.path = "failure" => formSuccessDisplay = "none"

\* a failed submit that follows a successful one, whose reset offer is pending
C10_Witness ==
    /\ lastEvent.type = "submit"
    /\ submitRec.path = "failure"
    /\ resetTimers > 0
    /\ formSuccessDisplay = "none"


\* C11: on the failure path of a submit the focus moves to the first field, in
\* declaration order, that is in the error state, and that field is the first
\* entry of this submit's Error Report.
C11_FocusFirstError ==
    (lastEvent.type = "submit" /\ submitRec.path = "failure") =>
        LET failing == {i \in 1..Len(fieldOrder) :
                           ~validateField(fieldOrder[i], fieldValue[fieldOrder[i]]).isValid}
            first   == fieldOrder[CHOOSE i \in failing : \A j \in failing : i <= j]
        IN  /\ failing # {}
            /\ focused = first
            /\ submitRec.errors[1].field = first

\* several fields fail and the first of them is not the first field of the form
C11_Witness ==
    /\ lastEvent.type = "submit" /\ submitRec.path = "failure"
    /\ Len(submitRec.errors) >= 2
    /\ focused = "email"


\* C14: a blur event on a field validates the field's current value and updates
\* its decoration and messages in the same step, whether or not a debounced
\* validation is pending for that field.
C14_BlurValidatesNow ==
    lastEvent.type = "blur" =>
        LET f == lastEvent.field
            r == validateField(f, fieldValue[f])
        IN  /\ lastResult[f] = r
            /\ r.isValid =>
                   /\ "error" \notin classList[f]
                   /\ errorDisplay[f] = "none"
                   /\ ~IsBlank(fieldValue[f]) =>
                          "success" \in classList[f] /\ successDisplay[f] = "block"
            /\ ~r.isValid =>
                   /\ classList[f] = {"error"}
                   /\ errorDisplay[f] = "block"
                   /\ errorText[f] = r.message
                   /\ successDisplay[f] = "none"

\* a blur that found the field invalid while the field's debounce timer is pending
C14_Witness ==
    /\ lastEvent.type = "blur"
    /\ timeout[lastEvent.field]
    /\ errorDisplay[lastEvent.field] = "block"
    /\ lastResult[lastEvent.field] =
           validateField(lastEvent.field, fieldValue[lastEvent.field])

\* C20: when the handling of a submit event has finished, every field named in
\* the Error Report carries the error decoration with its error message shown,
\* and every field that passed carries no error decoration.
C20_DecorationsReflectSubmit ==
    lastEvent.type = "submit" =>
        /\ \A i \in 1..Len(submitRec.errors) :
               LET f == submitRec.errors[i].field
               IN  /\ "error" \in classList[f]
                   /\ errorDisplay[f] = "block"
                   /\ errorText[f] = submitRec.errors[i].message
        /\ \A f \in DOMAIN submitRec.formData : "error" \notin classList[f]


(***************************************************************************)
(* Properties of the timers, checked under SpecTimed                       *)
(***************************************************************************)
\* C12: after a successful submit exactly one reset offer is made, once the
\* delay of 2000 has elapsed; if the user accepts it every field has its
\* initial value, carries neither the error nor the success decoration, has
\* its error and success message elements hidden, and the success indicator is
\* hidden; if the user declines, no field state changes.
C12_Offers(table) == {t \in table : t.kind = "reset"}

C12_AfterAccept ==
    lastEvent.type = "reset" =>
        /\ fieldValue = defaultValue
        /\ \A f \in Fields :
               /\ classList[f] \cap {"error", "success"} = {}
               /\ errorDisplay[f] = "none"
               /\ successDisplay[f] = "none"
        /\ formSuccessDisplay = "none"

C12_Step ==
    /\ (lastEvent'.type = "submit" /\ submitRec'.path = "success") =>
           \E t \in C12_Offers(timerTable') :
               /\ t.left = 2000
               /\ C12_Offers(timerTable') = C12_Offers(timerTable) \cup {t}
               /\ t \notin timerTable
    /\ (lastEvent'.type = "submit" /\ submitRec'.path = "failure") =>
           C12_Offers(timerTable') = C12_Offers(timerTable)
    /\ lastEvent'.type \in {"reset", "declined"} =>
           \E t \in C12_Offers(timerTable) :
               t.left = 0 /\ C12_Offers(timerTable') = C12_Offers(timerTable) \ {t}
    /\ lastEvent'.type = "declined" =>
           UNCHANGED <<fieldValue, classList, errorDisplay, errorText,
                       successDisplay, formSuccessDisplay>>

C12_ResetOffer == []C12_AfterAccept /\ [][C12_Step]_vars

\* an accepted reset that took back a typed value and cleared a decoration
C12_Witness ==
    /\ lastEvent.type = "reset"
    /\ fieldValue = defaultValue
    /\ \E f \in Fields : lastResult[f] # NoResult /\ timeoutId[f] # 0

\* C13: for each field, a run of input events less than 300 apart causes
\* exactly one debounced validation, fired 300 after the last event of the run
\* and using the field's value at firing time; each field has at most one
\* pending debounce timer, and timers of different fields do not cancel each
\* other.
C13_Timers ==
    \A f \in Fields :
        LET mine == Pending(timerTable, "debounce", f)
        IN  /\ Cardinality(mine) <= 1
            /\ \A t \in mine : t.left = 300 - sinceInput[f] /\ t.id = timeoutId[f]
            /\ (lastEvent.type = "input" /\ lastEvent.field = f) => mine # {}
            /\ (lastEvent.type = "timer" /\ lastEvent.field = f) =>
                   /\ sinceInput[f] = 300
                   /\ mine = {}
                   /\ lastResult[f] = validateField(f, fieldValue[f])

C13_Step ==
    \A f \in Fields :
        LET before == Pending(timerTable, "debounce", f)
            after  == Pending(timerTable', "debounce", f)
        IN  \* only the field's own input event starts its timer, only the
            \* timer's firing ends it, and only the passing of time changes it
            /\ (lastEvent'.type = "input" /\ lastEvent'.field # f) => after = before
            /\ lastEvent'.type \in {"blur", "focus", "submit", "reset", "declined"}
                   => after = before
            /\ (before # {} /\ after = {}) =>
                   lastEvent'.type = "timer" /\ lastEvent'.field = f

C13_Debounce == []C13_Timers /\ [][C13_Step]_vars

\* the one timer of a run of two input events on a field has fired
C13_Witness ==
    \E f \in Fields :
        /\ lastEvent = [type |-> "timer", field |-> f]
        /\ timeoutId[f] = 2
        /\ nextTimerId = 3
        /\ timerTable = {}


(***************************************************************************)
(* Properties of the theme toggle, checked under SpecTheme                 *)
(***************************************************************************)
\* the mode the document shows, if it shows exactly one
applied == IF bodyClass = {"light-theme"} THEN "light"
           ELSE IF bodyClass = {"dark-theme"} THEN "dark" ELSE Null

\* the text ends with the given words
EndsWith(text, words) ==
    /\ Len(text) >= Len(words)
    /\ SubSeq(text, Len(text) - Len(words) + 1, Len(text)) = words

C15_State ==
    /\ applied \in Themes
    /\ applied = "light" => EndsWith(themeToggleText, "Dark Mode")
    /\ applied = "dark" => EndsWith(themeToggleText, "Light Mode")
    /\ lastEvent.type = "toggle" => getStoredTheme(storageCondition, store) = applied
    /\ (lastEvent.type = "load" /\ getStoredTheme(storageCondition, store) \in {Null, Undefined})
           => applied = "light"

C15_Flip == lastEvent'.type = "toggle" => applied' # applied

\* C15: in every state after load the document has exactly one of the two
\* modes, the toggle's label names the other mode, every toggle flips the
\* mode, after a toggle the persisted preference is the applied mode, and
\* with nothing persisted the mode at load is light.
C15_Theme == []C15_State /\ [][C15_Flip]_vars

\* C16: in every storage condition getStoredTheme() returns what the most
\* recent saveTheme of the page session wrote: right after the toggle's
\* saveTheme(t) it returns t, and it keeps returning that until the next
\* write or the end of the session.
C16_ReadsLastWrite ==
    [][/\ lastEvent'.type = "toggle" =>
              getStoredTheme(storageCondition',
                             [localStorageTheme |-> localStorageTheme',
                              currentTheme |-> currentTheme']) = applied'
       /\ lastEvent'.type = "style" =>
              getStoredTheme(storageCondition',
                             [localStorageTheme |-> localStorageTheme',
                              currentTheme |-> currentTheme'])
                  = getStoredTheme(storageCondition, store)]_vars


(***************************************************************************)
(* Properties of the counter, checked under SpecCounter                    *)
(***************************************************************************)
\* C17: the counter starts at 0; after any sequence of its commands the
\* display's text reads as the current count and its colour is green iff the
\* count is positive, red iff it is negative and blue iff it is 0; reset (the
\* button or the space key) yields 0, and randomize yields an integer of
\* -100..100.
C17_Counter ==
    /\ lastEvent.type = "load" => count = 0
    /\ parseInt(displayText) = Number(count)
    /\ displayColor = Green <=> count > 0
    /\ displayColor = Red <=> count < 0
    /\ displayColor = Blue <=> count = 0
    /\ lastEvent = [type |-> "click", field |-> "resetBtn"] => count = 0
    /\ lastEvent = [type |-> "keydown", field |-> " "] => count = 0
    /\ lastEvent = [type |-> "click", field |-> "randomBtn"] => count \in -100..100

\* randomize has drawn the lowest value and the display shows it in red
C17_Witness ==
    /\ lastEvent = [type |-> "click", field |-> "randomBtn"]
    /\ count = -100
    /\ displayText = "-100"
    /\ displayColor = Red


(***************************************************************************)
(* Properties of the FAQ accordion, checked under SpecFAQ                  *)
(***************************************************************************)
AtMostOneActive(active) == Cardinality({i \in FaqItems : active[i]}) <= 1

IconsAgree(answers, icons) == \A i \in FaqItems : answers[i] <=> icons[i]

\* the step is a click on the question of item q
ClickOn(q) == lastEvent' = [type |-> "faqClick", field |-> NumberToString(q)]

C18_Click ==
    /\ IconsAgree(answerActive, iconActive) => IconsAgree(answerActive', iconActive')
    /\ \A q \in FaqItems :
           ClickOn(q) =>
               /\ IconsAgree(answerActive', iconActive')
               /\ ~answerActive[q] => \A i \in FaqItems : answerActive'[i] <=> i = q
               /\ answerActive[q] => \A i \in FaqItems : ~answerActive'[i]

\* C18: from a markup with at most one active answer, at most one answer is
\* ever active; after a click on a question every answer is active iff its
\* icon is, and stays so; a click on an inactive question makes it the only
\* active item, a click on the active question leaves none active.
C18_Accordion == []AtMostOneActive(answerActive) /\ [][C18_Click]_vars

\* item 2 has been opened by a click while the pointer is over its question
C18_Witness ==
    /\ lastEvent = [type |-> "faqClick", field |-> "2"]
    /\ \A i \in FaqItems : answerActive[i] <=> i = 2
    /\ \A i \in FaqItems : iconActive[i] <=> i = 2
    /\ mouseOver = 2

(***************************************************************************)
(* Properties of the tabs, checked under SpecTabs                          *)
(***************************************************************************)
C19_Click ==
    /\ lastEvent'.type = "tabClick" =>
           /\ \A b \in TabButtons : btnActive'[b] <=> b = lastEvent'.field
           /\ \A p \in TabPanels : panelActive'[p] <=> p = dataTab[lastEvent'.field]
    /\ lastEvent'.type # "tabClick" =>
           /\ btnActive' = btnActive
           /\ panelActive' = panelActive

\* C19: after a click on a tab button that button is the only active
\* button, and a panel is active iff its id is the button's data-tab; a click
\* on the active tab leaves it active, and no other step changes what is
\* active, so after the first click exactly one button is active for ever.
C19_Tabs == [][C19_Click]_vars

\* the third button, whose data-tab names no panel, has been clicked
C19_Witness ==
    /\ lastEvent = [type |-> "tabClick", field |-> "tabBtn3"]
    /\ \A b \in TabButtons : btnActive[b] <=> b = "tabBtn3"
    /\ \A p \in TabPanels : ~panelActive[p]


(***************************************************************************)
(* The reset and the timers that are pending when it runs, under SpecTimed *)
(***************************************************************************)
\* the decorations a validation writes
decorations == <<classList, errorDisplay, errorText, successDisplay>>

C21_NothingScheduled ==
    lastEvent.type = "reset" =>
        \A f \in Fields : Pending(timerTable, "debounce", f) = {}

C21_TimerAfterReset ==
    (lastEvent.type = "reset" /\ lastEvent'.type = "timer") => UNCHANGED decorations

\* C21: after an accepted reset every field stays undecorated, its messages
\* hidden, until the next user event on the form: when the reset has run no
\* debounced validation is still scheduled, and no debounce timer that fires
\* next changes a decoration.
C21_ResetIsFinal == []C21_NothingScheduled /\ [][C21_TimerAfterReset]_vars

\* C22: a reset offer is answered only while the most recent submit was a
\* successful one: after a failed submit no offer is presented, so no reset
\* clears the decorations of that failed submit.
C22_OfferOnlyAfterSuccess ==
    lastEvent.type \in {"reset", "declined"} => submitRec.path = "success"

(***************************************************************************)
(* Decorations that outlive what they were computed from, under Spec       *)
(***************************************************************************)
\* C23: whenever no debounced validation is pending, confirmPassword carries
\* the success decoration only if its trimmed value equals the current value
\* of the password field, also after the password was edited and validated.
C23_ConfirmSuccessMatches ==
    ((\A f \in Fields : ~timeout[f]) /\ "success" \in classList["confirmPassword"])
        => trim(fieldValue["confirmPassword"]) = fieldValue["password"]

\* the fields the last step validated
C24_Validated ==
    IF lastEvent.type \in {"timer", "blur"} THEN {lastEvent.field}
    ELSE IF lastEvent.type = "submit" THEN Fields ELSE {}

\* C24: right after a validation of a field whose value is blank the field
\* has no success decoration and its success message is hidden; a field has
\* the success decoration only if its last validation was valid; and no field
\* has the error and the success decoration together.
C24_BlankIsNotSuccess ==
    /\ \A f \in C24_Validated :
           IsBlank(fieldValue[f]) =>
               "success" \notin classList[f] /\ successDisplay[f] # "block"
    /\ \A f \in Fields :
           "success" \in classList[f] =>
               lastResult[f] # NoResult /\ lastResult[f].isValid
    /\ \A f \in Fields : ~({"error", "success"} \subseteq classList[f])


(***************************************************************************)
(* Properties of the dropdown and its colour action, under SpecDropdown    *)
(***************************************************************************)
\* the arrow points up from openDropdown() until the next closeDropdown()
C25_Opened == arrowTransform = "rotate(180deg)"

C25_ToggleOpens ==
    (lastEvent'.type = "toggleClick" /\ menuStyle.display # "block")
        => menuStyle'.display = "block" /\ C25_Opened'

\* C25: a click on the toggle while the menu is not displayed displays it,
\* and it stays displayed until the next toggle click, item click or outside
\* click: no timer of an earlier close hides a menu opened after that close.
C25_OpenStaysDisplayed ==
    [](C25_Opened => menuStyle.display = "block") /\ [][C25_ToggleOpens]_vars

\* C26: whenever every reset timer of the colour action has fired, the
\* background of the page is the one it had before the first invocation.
C26_BackgroundRestored ==
    {t \in timerTable : t.kind = "color"} = {} => bodyStyle.background = ""

====
